---------------------------- MODULE Spec2Model ----------------------------
(***************************************************************************)
(* Model of the evidence pipeline of cognolabs/changedetection:            *)
(*   - services/change_engine.py  aggregate_predictions, detect_changes    *)
(*   - services/geo_matcher.py    _build_index, match_frames_to_properties,*)
(*                                match_frame_to_property                  *)
(*   - utils/gps_utils.py         interpolate_gps                          *)
(*   - routers/videos.py          extract_video_frames, upload_gpx,        *)
(*                                geo_match_frames                         *)
(*   - routers/inference.py       run_model_inference                      *)
(*   - routers/changes.py         run_change_detection, review_change      *)
(*                                                                         *)
(* Conventions.                                                            *)
(*   Optional values: Python None is the empty tuple, a present value x is *)
(*   the one-element tuple <<x>>.                                          *)
(*   Confidences are fixed-point numbers in tenths (9 is 0.9); aggregated  *)
(*   confidences and thresholds are in units of 0.0001 (6522 is 0.6522),   *)
(*   the precision round(x, 4) keeps.                                      *)
(*   Positions are in a local metric grid (metres east, metres north); a   *)
(*   degree of latitude is MetersPerDegLat metres and a degree of          *)
(*   longitude MetersPerDegLon metres, the values at 25 degrees north.     *)
(***************************************************************************)
EXTENDS Integers, Sequences, FiniteSets, TLC

VARIABLES
    pc,                          \* "input" while inputs are drawn, "done" after the call
    predictions,                 \* aggregate_predictions: its argument
    agg,                         \* aggregate_predictions: its return value
    properties_with_predictions, \* detect_changes: its first argument
    confidence_threshold,        \* detect_changes: its second argument
    reports,                     \* detect_changes: its return value
    frames,                      \* match_frames_to_properties: its first argument
    properties,                  \* match_frames_to_properties: its second argument
    buffer_meters,               \* match_frames_to_properties: its third argument
    strtree_order,               \* the order in which STRtree.query yields its hits
    results,                     \* match_frames_to_properties: its return value
    results_again,               \* its return value when called once more
    start_time,                  \* parse_gpx_file: the time of the first track point
    points,                      \* interpolate_gps: its first argument, a parsed track
    target_time,                 \* interpolate_gps: its second argument
    interp,                      \* interpolate_gps: its return value
    db_properties,               \* the rows of table properties, in id order
    db_frames,                   \* the rows of table video_frames, in id order
    db_predictions,              \* the rows of table predictions, in id order
    db_reports,                  \* the rows of table change_reports, in id order
    gpx_tracks,                  \* videos.py: _gpx_tracks, video stem -> track points
    upload_dir,                  \* the track files saved under UPLOAD_DIR
    last_detect,                 \* what the latest run_change_detection wrote and cleared,
                                 \* kept while the evidence it read is still in the store
    response                     \* the HTTP status code the latest handler answered

aggVars    == <<predictions, agg>>
detectVars == <<properties_with_predictions, confidence_threshold, reports>>
matchVars  == <<frames, properties, buffer_meters, strtree_order, results,
                 results_again>>

interpVars == <<start_time, points, target_time, interp>>

storeVars  == <<db_properties, db_frames, db_predictions, db_reports, gpx_tracks,
                 upload_dir, last_detect, response>>

vars == <<pc, aggVars, detectVars, matchVars, interpVars, storeVars>>

None == <<>>
Some(x) == <<x>>

(***************************************************************************)
(* Bounds and input sets                                                   *)
(***************************************************************************)
MaxSamples == 3
MaxEvidence == 3

Labels == {"commercial", "non_commercial", "mix"}
Confidences == {0, 6, 8, 9}

PropertyIds == {1, 2}
Typologies == {"commercial", "non_commercial"}
SampleConfidences == {0, 3, 9}
Thresholds == {5000, 6667, 8000}

(***************************************************************************)
(* config.py                                                               *)
(***************************************************************************)
BUFFER_METERS == 30
CONFIDENCE_THRESHOLD == 5000
MIN_FRAMES_FOR_PREDICTION == 1

(***************************************************************************)
(* change_engine.py: aggregate_predictions                                 *)
(***************************************************************************)
Abs(x) == IF x < 0 THEN 0 - x ELSE x

\* round(n / d, 4) in units of 0.0001: nearest, an exact tie to the even digit.
Round4(n, d) ==
    LET s == 10000 * n
        q == s \div d
        r == s % d
    IN  IF 2 * r < d THEN q
        ELSE IF 2 * r > d THEN q + 1
        ELSE IF q % 2 = 0 THEN q ELSE q + 1

\* The keys of class_scores in insertion order: each label at its first sample.
RECURSIVE ClassKeys(_, _)
ClassKeys(preds, keys) ==
    IF preds = <<>> THEN keys
    ELSE LET cls == Head(preds).predicted_class
         IN  ClassKeys(Tail(preds),
                       IF \E k \in 1..Len(keys) : keys[k] = cls
                       THEN keys ELSE Append(keys, cls))

\* class_scores[cls] after the loop: the summed confidence of cls.
RECURSIVE ClassScore(_, _)
ClassScore(preds, cls) ==
    IF preds = <<>> THEN 0
    ELSE (IF Head(preds).predicted_class = cls THEN Head(preds).confidence ELSE 0)
         + ClassScore(Tail(preds), cls)

\* A count that adds each sample's confidence instead of 1.
RECURSIVE ClassCountWeighted(_, _)
ClassCountWeighted(preds, cls) ==
    IF preds = <<>> THEN 0
    ELSE (IF Head(preds).predicted_class = cls THEN Head(preds).confidence ELSE 0)
         + ClassCountWeighted(Tail(preds), cls)

\* class_counts[cls] after the loop: the number of samples of cls.
RECURSIVE ClassCount(_, _)
ClassCount(preds, cls) ==
    IF preds = <<>> THEN 0
    ELSE (IF Head(preds).predicted_class = cls THEN 1 ELSE 0)
         + ClassCount(Tail(preds), cls)

\* sum(class_scores.values())
RECURSIVE TotalConfidence(_)
TotalConfidence(preds) ==
    IF preds = <<>> THEN 0
    ELSE Head(preds).confidence + TotalConfidence(Tail(preds))

\* A winner that a later key with an equal score replaces (>= for >).
RECURSIVE MaxKeyLast(_, _, _)
MaxKeyLast(keys, preds, best) ==
    IF keys = <<>> THEN best
    ELSE MaxKeyLast(Tail(keys), preds,
                    IF ClassScore(preds, Head(keys)) >= ClassScore(preds, best)
                    THEN Head(keys) ELSE best)

\* max(class_scores, key=class_scores.get): the keys in insertion order, a later
\* key replaces the best one only when its score is strictly greater.
RECURSIVE MaxKey(_, _, _)
MaxKey(keys, preds, best) ==
    IF keys = <<>> THEN best
    ELSE MaxKey(Tail(keys), preds,
                IF ClassScore(preds, Head(keys)) > ClassScore(preds, best)
                THEN Head(keys) ELSE best)

\* The mean confidence of the winner's samples instead of its share of the mass.
WinnerConfidenceMean(preds, winner) ==
    IF TotalConfidence(preds) > 0
    THEN Round4(ClassScore(preds, winner), 10 * ClassCount(preds, winner))
    ELSE 0

\* The winner's summed confidence, not divided by the total.
WinnerConfidenceUnnormalised(preds, winner) ==
    IF TotalConfidence(preds) > 0
    THEN Round4(ClassScore(preds, winner), 10)
    ELSE 0

\* winner_confidence, rounded as the returned dict holds it.
WinnerConfidence(preds, winner) ==
    IF TotalConfidence(preds) > 0
    THEN Round4(ClassScore(preds, winner), TotalConfidence(preds))
    ELSE 0

\* A floor that also refuses exactly the minimum number of samples (<= for <).
AggregateAboveMinimum(preds) ==
    IF Len(preds) <= MIN_FRAMES_FOR_PREDICTION THEN None
    ELSE LET keys   == ClassKeys(preds, <<>>)
             winner == MaxKey(Tail(keys), preds, Head(keys))
         IN  Some([predicted_typology    |-> winner,
                   aggregated_confidence |-> WinnerConfidence(preds, winner),
                   num_frames_analyzed   |-> Len(preds),
                   num_frames_agreeing   |-> ClassCount(preds, winner)])

aggregate_predictions(preds) ==
    IF Len(preds) < MIN_FRAMES_FOR_PREDICTION THEN None
    ELSE LET keys   == ClassKeys(preds, <<>>)
             winner == MaxKey(Tail(keys), preds, Head(keys))
         IN  Some([predicted_typology    |-> winner,
                   aggregated_confidence |-> WinnerConfidence(preds, winner),
                   num_frames_analyzed   |-> Len(preds),
                   num_frames_agreeing   |-> ClassCount(preds, winner)])

(***************************************************************************)
(* change_engine.py: detect_changes                                        *)
(***************************************************************************)
\* A mismatch test that flags only above the threshold (> for >=).
IsMismatchStrict(existing, predicted, confidence, threshold) ==
    /\ existing # None
    /\ predicted # existing[1]
    /\ confidence > threshold

IsMismatch(existing, predicted, confidence, threshold) ==
    /\ existing # None
    /\ predicted # existing[1]
    /\ confidence >= threshold

RECURSIVE detect_changes(_, _)
detect_changes(props, threshold) ==
    IF props = <<>> THEN <<>>
    ELSE LET prop == Head(props)
             a    == aggregate_predictions(prop.predictions)
             rest == detect_changes(Tail(props), threshold)
         IN  IF a = None THEN rest
             ELSE <<[property_id           |-> prop.property_id,
                     existing_typology     |-> prop.existing_typology,
                     predicted_typology    |-> a[1].predicted_typology,
                     aggregated_confidence |-> a[1].aggregated_confidence,
                     num_frames_analyzed   |-> a[1].num_frames_analyzed,
                     num_frames_agreeing   |-> a[1].num_frames_agreeing,
                     status |-> IF IsMismatch(prop.existing_typology,
                                              a[1].predicted_typology,
                                              a[1].aggregated_confidence,
                                              threshold)
                                THEN "flagged" ELSE "confirmed"]>> \o rest

(***************************************************************************)
(* geo_matcher.py                                                          *)
(*                                                                         *)
(* A parcel polygon is an axis-parallel rectangle [x0, x1] x [y0, y1] of   *)
(* the metric grid; polygon_geojson is None when shape(json.loads(..))     *)
(* raises. Distances are compared by their squares.  For an axis-parallel  *)
(* rectangle the nearest boundary point found in degrees is also the       *)
(* nearest one in metres, so the projected distance is the metric one.     *)
(***************************************************************************)
DegreeMeters == 111000
MetersPerDegLat == 110773
MetersPerDegLon == 100950

Rect(x0, y0, x1, y1) == [x0 |-> x0, y0 |-> y0, x1 |-> x1, y1 |-> y1]
Pt(x, y) == [x |-> x, y |-> y]

Max(a, b) == IF a >= b THEN a ELSE b
Min(a, b) == IF a <= b THEN a ELSE b

DictPut(dict, k, v) == [x \in (DOMAIN dict) \cup {k} |-> IF x = k THEN v ELSE dict[x]]
DictGet(dict, k) == IF k \in DOMAIN dict THEN dict[k] ELSE None

\* _build_index: the parsed polygons, their ids at the same positions, and the
\* tree, held as the order in which a query yields the polygon positions.
build_index(props, order) ==
    LET parsed == SelectSeq(props, LAMBDA prop : prop.polygon_geojson # None)
        n      == Len(parsed)
    IN  [polygons |-> [i \in 1..n |-> parsed[i].polygon_geojson[1]],
         prop_ids |-> [i \in 1..n |-> parsed[i].id],
         tree     |-> IF order = "ascending"
                      THEN [i \in 1..n |-> i]
                      ELSE [i \in 1..n |-> n + 1 - i]]

\* The envelope of poly holds the point (tree.query(point)).
EnvelopeHasPoint(poly, p) ==
    /\ poly.x0 <= p.x /\ p.x <= poly.x1
    /\ poly.y0 <= p.y /\ p.y <= poly.y1

\* A containment test on Point(lat, lon) instead of Point(lon, lat).
ContainsSwapped(poly, p) ==
    /\ poly.x0 < p.y /\ p.y < poly.x1
    /\ poly.y0 < p.x /\ p.x < poly.y1

\* polygons[idx].contains(point): the interior, the boundary excluded.
Contains(poly, p) ==
    /\ poly.x0 < p.x /\ p.x < poly.x1
    /\ poly.y0 < p.y /\ p.y < poly.y1

TreeQueryPoint(index, p) ==
    SelectSeq(index.tree, LAMBDA i : EnvelopeHasPoint(index.polygons[i], p))

\* Pass 1: the first hit, in query order, that contains the point.
RECURSIVE FirstContaining(_, _, _)
FirstContaining(candidates, index, p) ==
    IF candidates = <<>> THEN None
    ELSE IF Contains(index.polygons[Head(candidates)], p)
         THEN Some(index.prop_ids[Head(candidates)])
         ELSE FirstContaining(Tail(candidates), index, p)

\* The envelope of poly meets the envelope of point.buffer(degree_buffer), with
\* degree_buffer = b / 111000 degrees on both axes; buffer(0) is empty.
InSearchArea(poly, p, b) ==
    /\ b > 0
    /\ (poly.x0 - p.x) * DegreeMeters <= b * MetersPerDegLon
    /\ (p.x - poly.x1) * DegreeMeters <= b * MetersPerDegLon
    /\ (poly.y0 - p.y) * DegreeMeters <= b * MetersPerDegLat
    /\ (p.y - poly.y1) * DegreeMeters <= b * MetersPerDegLat

TreeQueryArea(index, p, b) ==
    SelectSeq(index.tree, LAMBDA i : InSearchArea(index.polygons[i], p, b))

\* Four times the squared distance from the point to the centroid of poly.
CentroidDist2x4(poly, p) ==
    (2 * p.x - (poly.x0 + poly.x1)) * (2 * p.x - (poly.x0 + poly.x1))
    + (2 * p.y - (poly.y0 + poly.y1)) * (2 * p.y - (poly.y0 + poly.y1))

\* approx_dist > buffer_meters * 3
CentroidTooFar(poly, p, b) == CentroidDist2x4(poly, p) > 36 * b * b

\* The squared distance from the point to the boundary of poly.
BoundaryDist2(poly, p) ==
    LET dx == Max(Max(poly.x0 - p.x, p.x - poly.x1), 0)
        dy == Max(Max(poly.y0 - p.y, p.y - poly.y1), 0)
        inner == Min(Min(p.x - poly.x0, poly.x1 - p.x),
                     Min(p.y - poly.y0, poly.y1 - p.y))
    IN  IF dx = 0 /\ dy = 0 THEN inner * inner ELSE dx * dx + dy * dy

\* Pass 2, the loop over nearby: best is None or [id, dist2].
RECURSIVE NearestLoop(_, _, _, _, _)
NearestLoop(nearby, index, p, b, best) ==
    IF nearby = <<>> THEN best
    ELSE LET idx  == Head(nearby)
             poly == index.polygons[idx]
             d2   == BoundaryDist2(poly, p)
         IN  IF CentroidTooFar(poly, p, b)
             THEN NearestLoop(Tail(nearby), index, p, b, best)
             ELSE IF d2 < b * b /\ (best = None \/ d2 < best[1].dist2)
                  THEN NearestLoop(Tail(nearby), index, p, b,
                                   Some([id |-> index.prop_ids[idx], dist2 |-> d2]))
                  ELSE NearestLoop(Tail(nearby), index, p, b, best)

\* Pass 1: exact point-in-polygon over the hits of tree.query(point).
Pass1(index, p) == FirstContaining(TreeQueryPoint(index, p), index, p)

\* Pass 2: the nearest boundary among the hits of tree.query(search_area).
Pass2(index, p, b) ==
    LET nearby == TreeQueryArea(index, p, b)
    IN  IF Len(nearby) = 0 THEN None
        ELSE LET best == NearestLoop(nearby, index, p, b, None)
             IN  IF best = None THEN None ELSE Some(best[1].id)

\* The body of the loop over frames: the value stored in results[frame["id"]].
MatchFrame(frame, index, b) ==
    IF frame.gps_lat = None \/ frame.gps_lon = None THEN None
    ELSE LET p     == Pt(frame.gps_lon[1], frame.gps_lat[1])
             found == Pass1(index, p)
         IN  IF found # None THEN found ELSE Pass2(index, p, b)

\* A loop whose found is initialised once, before the loop: a frame that no
\* parcel contains keeps the containment match of an earlier frame.
RECURSIVE MatchLoopStale(_, _, _, _, _)
MatchLoopStale(fs, index, b, res, found) ==
    IF fs = <<>> THEN res
    ELSE LET frame == Head(fs)
         IN  IF frame.gps_lat = None \/ frame.gps_lon = None
             THEN MatchLoopStale(Tail(fs), index, b, DictPut(res, frame.id, None), found)
             ELSE LET p   == Pt(frame.gps_lon[1], frame.gps_lat[1])
                      hit == Pass1(index, p)
                      now == IF hit # None THEN hit ELSE found
                  IN  MatchLoopStale(Tail(fs), index, b,
                          DictPut(res, frame.id,
                                  IF now # None THEN now ELSE Pass2(index, p, b)),
                          now)

MatchLoopCarry(fs, index, b, res) == MatchLoopStale(fs, index, b, res, None)

\* The loop over frames.
RECURSIVE MatchLoop(_, _, _, _)
MatchLoop(fs, index, b, res) ==
    IF fs = <<>> THEN res
    ELSE MatchLoop(Tail(fs), index, b,
                   DictPut(res, Head(fs).id, MatchFrame(Head(fs), index, b)))

match_frames_to_properties(fs, props, b, order) ==
    IF props = <<>> \/ fs = <<>> THEN <<>>
    ELSE MatchLoop(fs, build_index(props, order), b, <<>>)

match_frame_to_property(frame_lat, frame_lon, props, b, order) ==
    DictGet(match_frames_to_properties(
                <<[id |-> 0, gps_lat |-> Some(frame_lat), gps_lon |-> Some(frame_lon)]>>,
                props, b, order), 0)

(***************************************************************************)
(* gps_utils.py: interpolate_gps                                           *)
(*                                                                         *)
(* Times and coordinates are integers; an interpolated coordinate is the   *)
(* exact fraction <<numerator, denominator>> with a positive denominator.  *)
(***************************************************************************)
RatEq(a, b) == a[1] * b[2] = b[1] * a[2]

\* (lat, lon) of a track point, returned as it is.
PointPosition(point) == [lat |-> <<point.lat, 1>>, lon |-> <<point.lon, 1>>]

\* A first clamp that lets a query at the first timestamp fall through (< for <=).
AtOrBeforeFirstStrict(pts, t) == t < pts[1].time

\* target_time <= points[0]["time"]
AtOrBeforeFirst(pts, t) == t <= pts[1].time

\* target_time >= points[-1]["time"]
AtOrAfterLast(pts, t) == t >= pts[Len(pts)].time

\* A ratio measured from the far end of the pair.
RatioFromEnd(t, t0, t1) == IF t1 = t0 THEN <<0, 1>> ELSE <<t1 - t, t1 - t0>>

\* A ratio without the guard on equal timestamps.
RatioUnguarded(t, t0, t1) == <<t - t0, t1 - t0>>

\* ratio: 0 when t1 == t0, else (target_time - t0) / (t1 - t0)
Ratio(t, t0, t1) == IF t1 = t0 THEN <<0, 1>> ELSE <<t - t0, t1 - t0>>

\* a + ratio * (b - a)
Lerp(a, b, ratio) == <<a * ratio[2] + ratio[1] * (b - a), ratio[2]>>

\* A loop whose bracket test is strict at both ends (< for <=).
RECURSIVE InterpolateFromStrict(_, _, _)
InterpolateFromStrict(pts, t, i) ==
    IF i > Len(pts) - 1 THEN None
    ELSE LET t0 == pts[i].time
             t1 == pts[i + 1].time
         IN  IF t0 < t /\ t < t1
             THEN LET ratio == Ratio(t, t0, t1)
                  IN  Some([lat |-> Lerp(pts[i].lat, pts[i + 1].lat, ratio),
                            lon |-> Lerp(pts[i].lon, pts[i + 1].lon, ratio)])
             ELSE InterpolateFromStrict(pts, t, i + 1)

\* The loop over consecutive pairs, from pair i on; None when no pair brackets.
RECURSIVE InterpolateFrom(_, _, _)
InterpolateFrom(pts, t, i) ==
    IF i > Len(pts) - 1 THEN None
    ELSE LET t0 == pts[i].time
             t1 == pts[i + 1].time
         IN  IF t0 <= t /\ t <= t1
             THEN LET ratio == Ratio(t, t0, t1)
                  IN  Some([lat |-> Lerp(pts[i].lat, pts[i + 1].lat, ratio),
                            lon |-> Lerp(pts[i].lon, pts[i + 1].lon, ratio)])
             ELSE InterpolateFrom(pts, t, i + 1)

\* A guard that lets a single-point track through (< 1 for < 2).
InterpolateGpsFromOne(pts, t) ==
    IF Len(pts) < 1 THEN None
    ELSE IF AtOrBeforeFirst(pts, t) THEN Some(PointPosition(pts[1]))
    ELSE IF AtOrAfterLast(pts, t) THEN Some(PointPosition(pts[Len(pts)]))
    ELSE InterpolateFrom(pts, t, 1)

interpolate_gps(pts, t) ==
    IF Len(pts) < 2 THEN None
    ELSE IF AtOrBeforeFirst(pts, t) THEN Some(PointPosition(pts[1]))
    ELSE IF AtOrAfterLast(pts, t) THEN Some(PointPosition(pts[Len(pts)]))
    ELSE InterpolateFrom(pts, t, 1)

(***************************************************************************)
(* Specification SpecAgg: aggregate_predictions on a drawn sample list     *)
(***************************************************************************)
IdleDetect ==
    /\ properties_with_predictions = <<>>
    /\ confidence_threshold = CONFIDENCE_THRESHOLD
    /\ reports = <<>>

IdleAgg ==
    /\ predictions = <<>>
    /\ agg = None

IdleInterp ==
    /\ start_time = None
    /\ points = <<>>
    /\ target_time = 0
    /\ interp = None

IdleStore ==
    /\ db_properties = <<>>
    /\ db_frames = <<>>
    /\ db_predictions = <<>>
    /\ db_reports = <<>>
    /\ gpx_tracks = <<>>
    /\ upload_dir = {}
    /\ last_detect = None
    /\ response = None

IdleMatch ==
    /\ frames = <<>>
    /\ properties = <<>>
    /\ buffer_meters = BUFFER_METERS
    /\ strtree_order = "ascending"
    /\ results = <<>>
    /\ results_again = <<>>

InitAgg ==
    /\ pc = "input"
    /\ predictions = <<>>
    /\ agg = None
    /\ IdleDetect
    /\ IdleMatch
    /\ IdleInterp
    /\ IdleStore

AddPrediction ==
    /\ pc = "input"
    /\ Len(predictions) < MaxSamples
    /\ \E cls \in Labels, conf \in Confidences :
           predictions' = Append(predictions,
                                 [predicted_class |-> cls, confidence |-> conf])
    /\ UNCHANGED <<pc, agg, detectVars, matchVars, interpVars,
                   storeVars>>

AggregatePredictions ==
    /\ pc = "input"
    /\ agg' = aggregate_predictions(predictions)
    /\ pc' = "done"
    /\ UNCHANGED <<predictions, detectVars, matchVars, interpVars,
                   storeVars>>

NextAgg == AddPrediction \/ AggregatePredictions

SpecAgg == InitAgg /\ [][NextAgg]_vars

(***************************************************************************)
(* Specification SpecDetect: detect_changes on a drawn list of parcels     *)
(***************************************************************************)
ExistingChoices == {None} \cup {Some(t) : t \in Typologies}

RECURSIVE TotalSamples(_)
TotalSamples(props) ==
    IF props = <<>> THEN 0
    ELSE Len(Head(props).predictions) + TotalSamples(Tail(props))

InitDetect ==
    /\ pc = "input"
    /\ \E existing \in [PropertyIds -> ExistingChoices] :
           properties_with_predictions =
               [i \in 1..Cardinality(PropertyIds) |->
                   [property_id       |-> i,
                    existing_typology |-> existing[i],
                    predictions       |-> <<>>]]
    /\ confidence_threshold = CONFIDENCE_THRESHOLD
    /\ reports = <<>>
    /\ IdleAgg
    /\ IdleMatch
    /\ IdleInterp
    /\ IdleStore

AddSample ==
    /\ pc = "input"
    /\ TotalSamples(properties_with_predictions) < MaxEvidence
    /\ \E i \in 1..Len(properties_with_predictions),
          cls \in Typologies, conf \in SampleConfidences :
           properties_with_predictions' =
               [properties_with_predictions EXCEPT ![i].predictions =
                   Append(@, [predicted_class |-> cls, confidence |-> conf])]
    /\ UNCHANGED <<pc, aggVars, confidence_threshold, reports, matchVars, interpVars,
                   storeVars>>

DetectChanges ==
    /\ pc = "input"
    /\ \E threshold \in Thresholds :
           /\ confidence_threshold' = threshold
           /\ reports' = detect_changes(properties_with_predictions, threshold)
    /\ pc' = "done"
    /\ UNCHANGED <<aggVars, properties_with_predictions, matchVars, interpVars,
                   storeVars>>

NextDetect == AddSample \/ DetectChanges

SpecDetect == InitDetect /\ [][NextDetect]_vars

(***************************************************************************)
(* Specification SpecMatch: match_frames_to_properties on a drawn registry *)
(* and a drawn batch of frames                                             *)
(***************************************************************************)
MaxParcels == 2

SmallParcel  == Rect(0, 0, 20, 20)
SecondParcel == Rect(0, 60, 20, 80)
LargeParcel  == Rect(-90, 59, 110, 259)
MediumParcel == Rect(-65, 40, 85, 190)

ParcelShapes == {SmallParcel, SecondParcel, LargeParcel, MediumParcel}
PolygonChoices == {None} \cup {Some(r) : r \in ParcelShapes}

Positions == {Pt(10, 10), Pt(10, 20), Pt(10, 30), Pt(10, 35), Pt(10, 49),
              Pt(49, 10), Pt(10, -500)}
FrameIds == {1, 2}
Buffers == {0, 20, 30}

Registries ==
    UNION {[1..n -> PolygonChoices] : n \in 0..MaxParcels}

InitMatch ==
    /\ pc = "input"
    /\ frames = <<>>
    /\ \E reg \in Registries :
           properties = [i \in 1..Len(reg) |-> [id |-> i, polygon_geojson |-> reg[i]]]
    /\ buffer_meters \in Buffers
    /\ strtree_order \in {"ascending", "descending"}
    /\ results = <<>>
    /\ results_again = <<>>
    /\ IdleAgg
    /\ IdleDetect
    /\ IdleInterp
    /\ IdleStore

AddFrame ==
    /\ pc = "input"
    /\ \E id \in FrameIds \ {frames[i].id : i \in 1..Len(frames)} :
           \/ \E p \in Positions :
                  frames' = Append(frames, [id |-> id, gps_lat |-> Some(p.y),
                                            gps_lon |-> Some(p.x)])
           \/ frames' = Append(frames, [id |-> id, gps_lat |-> None, gps_lon |-> None])
    /\ UNCHANGED <<pc, aggVars, detectVars, properties, buffer_meters,
                   strtree_order, results, results_again, interpVars,
                   storeVars>>

\* A call that pops the frames it has matched off the list it was given.
MatchFramesConsuming ==
    /\ pc = "input"
    /\ results' = match_frames_to_properties(frames, properties, buffer_meters,
                                             strtree_order)
    /\ frames' = <<>>
    /\ pc' = "done"
    /\ UNCHANGED <<aggVars, detectVars, properties, buffer_meters,
                   strtree_order, results_again, interpVars,
                   storeVars>>

MatchFrames ==
    /\ pc = "input"
    /\ results' = match_frames_to_properties(frames, properties, buffer_meters,
                                             strtree_order)
    /\ pc' = "done"
    /\ UNCHANGED <<aggVars, detectVars, frames, properties, buffer_meters,
                   strtree_order, results_again, interpVars,
                   storeVars>>

\* The same call once more, on the arguments the first call was given.
MatchFramesAgain ==
    /\ pc = "done"
    /\ results_again' = match_frames_to_properties(frames, properties, buffer_meters,
                                                   strtree_order)
    /\ pc' = "again"
    /\ UNCHANGED <<aggVars, detectVars, frames, properties, buffer_meters,
                   strtree_order, results, interpVars,
                   storeVars>>

NextMatch == AddFrame \/ MatchFrames \/ MatchFramesAgain

SpecMatch == InitMatch /\ [][NextMatch]_vars

(***************************************************************************)
(* Specification SpecInterp: interpolate_gps on a track as parse_gpx_file  *)
(* builds it (times are seconds elapsed since the first point, the points  *)
(* stay in file order) and a drawn query time                              *)
(***************************************************************************)
MaxTrack == 3

RawTimes == {100, 105, 110}
TrackPositions == {[lat |-> 0, lon |-> 0], [lat |-> 10, lon |-> 10], [lat |-> 4, lon |-> 7]}
QueryTimes == {-3, 0, 2, 5, 10, 12}

InitInterp ==
    /\ pc = "input"
    /\ start_time = None
    /\ points = <<>>
    /\ target_time = 0
    /\ interp = None
    /\ IdleAgg
    /\ IdleDetect
    /\ IdleMatch
    /\ IdleStore

\* parse_gpx_file: one more track point read from the file.
AddTrackPoint ==
    /\ pc = "input"
    /\ Len(points) < MaxTrack
    /\ \E time \in RawTimes, pos \in TrackPositions :
           LET start == IF start_time = None THEN time ELSE start_time[1]
           IN  /\ start_time' = Some(start)
               /\ points' = Append(points, [time |-> time - start,
                                            lat |-> pos.lat, lon |-> pos.lon])
    /\ UNCHANGED <<pc, target_time, interp, aggVars, detectVars, matchVars,
                   storeVars>>

InterpolateGps ==
    /\ pc = "input"
    /\ \E t \in QueryTimes :
           /\ target_time' = t
           /\ interp' = interpolate_gps(points, t)
    /\ pc' = "done"
    /\ UNCHANGED <<start_time, points, aggVars, detectVars, matchVars,
                   storeVars>>

NextInterp == AddTrackPoint \/ InterpolateGps

SpecInterp == InitInterp /\ [][NextInterp]_vars

(***************************************************************************)
(* The store (models.py) and the request handlers of routers/videos.py:    *)
(* extract_video_frames, upload_gpx, geo_match_frames                      *)
(*                                                                         *)
(* A table is the sequence of its rows in id order; a new row gets the     *)
(* greatest id of the table plus one.  A frame's frame_path is the pair    *)
(* <<video stem, frame number>>.  The video and the track files are fixed  *)
(* files: the video always yields the same frame timestamps and a track    *)
(* file always parses to the same points.                                  *)
(***************************************************************************)
pipelineVars == <<pc, aggVars, detectVars, matchVars, interpVars>>

MaxPredictions == 1

Videos == {"v1.mp4"}
TrackFiles == {"a.gpx", "b.gpx", "c.gpx"}
StoreBuffers == {20, 30}

\* Path(name).stem
Stem(name) == IF name = "v1.mp4" THEN "v1" ELSE name

\* The seconds between two extracted frames that a request may ask for.
Intervals == {5, 10}

\* The timestamps extract_frames reads off the video, which runs for more
\* than 5 and less than 10 seconds: one frame every interval seconds.
VideoTimestamps(v, interval) == IF interval = 5 THEN <<0, 5>> ELSE <<0>>

\* parse_track_file: a walk from inside parcel 1 to inside parcel 2, a walk
\* from 20 m north of parcel 1 to inside parcel 2, and a file with a single
\* track point.
parse_track_file(file) ==
    IF file = "a.gpx"
    THEN <<[time |-> 0, lat |-> 10, lon |-> 10], [time |-> 10, lat |-> 70, lon |-> 10]>>
    ELSE IF file = "b.gpx"
    THEN <<[time |-> 0, lat |-> 40, lon |-> 10], [time |-> 10, lat |-> 70, lon |-> 10]>>
    ELSE <<[time |-> 0, lat |-> 10, lon |-> 10]>>

\* The id the table gives its next row.
NextId(rows) == IF rows = <<>> THEN 1 ELSE rows[Len(rows)].id + 1

\* An interpolated coordinate as the column holds it; the files above keep
\* every interpolated coordinate on the metre grid.
Coord(r) == r[1] \div r[2]

\* extract_frames: one dict per extracted frame, no position yet.
extract_frames(v, interval) ==
    [n \in 1..Len(VideoTimestamps(v, interval)) |->
        [video_filename |-> v,
         frame_number   |-> n - 1,
         timestamp_sec  |-> VideoTimestamps(v, interval)[n],
         frame_path     |-> <<Stem(v), n - 1>>,
         gps_lat        |-> None,
         gps_lon        |-> None,
         gps_source     |-> None]]

\* The position and source a frame gets from an interpolation result.
WithPosition(frame, result) ==
    [frame EXCEPT !.gps_lat    = Some(Coord(result[1].lat)),
                  !.gps_lon    = Some(Coord(result[1].lon)),
                  !.gps_source = Some("gpx_interpolated")]

assign_gps_to_frames(fs, gps_points) ==
    IF gps_points = <<>> THEN fs
    ELSE [n \in 1..Len(fs) |->
             LET result == interpolate_gps(gps_points, fs[n].timestamp_sec)
             IN  IF result # None THEN WithPosition(fs[n], result) ELSE fs[n]]

\* The track extract_video_frames uses for video v and the cache it leaves:
\* the cached track of the video, else any track file found under UPLOAD_DIR
\* that has points (glob order is not fixed), else none.
TrackChoices(v) ==
    LET on_disk == {file \in upload_dir : parse_track_file(file) # <<>>}
    IN  IF Stem(v) \in DOMAIN gpx_tracks
        THEN {[gps_points |-> gpx_tracks[Stem(v)], cache |-> gpx_tracks]}
        ELSE IF on_disk = {}
        THEN {[gps_points |-> <<>>, cache |-> gpx_tracks]}
        ELSE {[gps_points |-> parse_track_file(file),
               cache      |-> DictPut(gpx_tracks, Stem(v), parse_track_file(file))] :
                 file \in on_disk}

\* The rows saved for the frame dicts fs, after the rows kept.
NewFrameRows(kept, fs) ==
    [n \in 1..Len(fs) |->
        [id                  |-> NextId(kept) + n - 1,
         video_filename      |-> fs[n].video_filename,
         frame_number        |-> fs[n].frame_number,
         timestamp_sec       |-> fs[n].timestamp_sec,
         frame_path          |-> fs[n].frame_path,
         gps_lat             |-> fs[n].gps_lat,
         gps_lon             |-> fs[n].gps_lon,
         gps_source          |-> fs[n].gps_source,
         matched_property_id |-> None]]

\* What change detection reads: the properties, the frame matches and the
\* predictions.
Evidence ==
    [properties  |-> db_properties,
     matches     |-> [i \in 1..Len(db_frames) |->
                         [id                  |-> db_frames[i].id,
                          matched_property_id |-> db_frames[i].matched_property_id]],
     predictions |-> db_predictions]

\* last_detect after a handler other than run_change_detection: forgotten
\* once the handler has changed the evidence.
LastDetectKept == last_detect' = IF Evidence' = Evidence THEN last_detect ELSE None

ExtractVideoFrames(v, interval) ==
    LET kept == SelectSeq(db_frames, LAMBDA f : f.video_filename # v)
    IN  /\ \E choice \in TrackChoices(v) :
               /\ gpx_tracks' = choice.cache
               /\ db_frames' = kept \o NewFrameRows(kept,
                                   assign_gps_to_frames(extract_frames(v, interval),
                                                        choice.gps_points))
        /\ response' = Some(200)
        /\ UNCHANGED <<db_properties, db_predictions, db_reports, upload_dir,
                       pipelineVars>>
        /\ LastDetectKept

\* A selection of every frame, positioned or not.
AnyFrame(f) == TRUE

\* VideoFrame.gps_lat.is_(None)
WithoutGps(f) == f.gps_lat = None

\* An upload that positions the frames of the named video only.
UploadGpxForVideo(file, video_name) ==
    LET track == parse_track_file(file)
    IN  /\ upload_dir' = upload_dir \cup {file}
        /\ response' = IF track = <<>> THEN Some(400) ELSE Some(200)
        /\ IF track = <<>>
           THEN UNCHANGED <<gpx_tracks, db_frames>>
           ELSE /\ gpx_tracks' = IF video_name # ""
                                 THEN DictPut(gpx_tracks, Stem(video_name), track)
                                 ELSE gpx_tracks
                /\ db_frames' =
                       [i \in 1..Len(db_frames) |->
                           LET frame  == db_frames[i]
                               result == interpolate_gps(track, frame.timestamp_sec)
                           IN  IF WithoutGps(frame) /\ result # None
                                  /\ frame.video_filename = video_name
                               THEN WithPosition(frame, result)
                               ELSE frame]
        /\ UNCHANGED <<db_properties, db_predictions, db_reports, pipelineVars>>
        /\ LastDetectKept

UploadGpx(file, video_name) ==
    LET track == parse_track_file(file)
    IN  /\ upload_dir' = upload_dir \cup {file}
        /\ response' = IF track = <<>> THEN Some(400) ELSE Some(200)
        /\ IF track = <<>>
           THEN UNCHANGED <<gpx_tracks, db_frames>>
           ELSE /\ gpx_tracks' = IF video_name # ""
                                 THEN DictPut(gpx_tracks, Stem(video_name), track)
                                 ELSE gpx_tracks
                /\ db_frames' =
                       [i \in 1..Len(db_frames) |->
                           LET frame  == db_frames[i]
                               result == interpolate_gps(track, frame.timestamp_sec)
                           IN  IF WithoutGps(frame) /\ result # None
                               THEN WithPosition(frame, result)
                               ELSE frame]
        /\ UNCHANGED <<db_properties, db_predictions, db_reports, pipelineVars>>
        /\ LastDetectKept

\* A geo-match over every frame, a missing coordinate read as 0.
GeoMatchEveryFrame(b) ==
    LET prop_dicts == [i \in 1..Len(db_properties) |->
                          [id              |-> db_properties[i].id,
                           polygon_geojson |-> db_properties[i].polygon_geojson]]
        OrZero(c)  == IF c = None THEN 0 ELSE c[1]
    IN  /\ IF db_frames = <<>> \/ db_properties = <<>>
           THEN UNCHANGED db_frames
           ELSE db_frames' =
                    [i \in 1..Len(db_frames) |->
                        [db_frames[i] EXCEPT !.matched_property_id =
                            match_frame_to_property(OrZero(db_frames[i].gps_lat),
                                OrZero(db_frames[i].gps_lon), prop_dicts, b,
                                strtree_order)]]
        /\ response' = Some(200)
        /\ UNCHANGED <<db_properties, db_predictions, db_reports, gpx_tracks,
                       upload_dir, pipelineVars>>
        /\ LastDetectKept

\* A geo-match that leaves the frames alone that already have a match.
GeoMatchUnmatched(b) ==
    LET prop_dicts == [i \in 1..Len(db_properties) |->
                          [id              |-> db_properties[i].id,
                           polygon_geojson |-> db_properties[i].polygon_geojson]]
    IN  /\ IF (\A i \in 1..Len(db_frames) : db_frames[i].gps_lat = None)
               \/ db_properties = <<>>
           THEN UNCHANGED db_frames
           ELSE db_frames' =
                    [i \in 1..Len(db_frames) |->
                        LET frame == db_frames[i]
                        IN  IF frame.gps_lat = None \/ frame.matched_property_id # None
                            THEN frame
                            ELSE [frame EXCEPT !.matched_property_id =
                                     match_frame_to_property(frame.gps_lat[1],
                                         frame.gps_lon[1], prop_dicts, b,
                                         strtree_order)]]
        /\ response' = Some(200)
        /\ UNCHANGED <<db_properties, db_predictions, db_reports, gpx_tracks,
                       upload_dir, pipelineVars>>
        /\ LastDetectKept

GeoMatchFrames(b) ==
    LET prop_dicts == [i \in 1..Len(db_properties) |->
                          [id              |-> db_properties[i].id,
                           polygon_geojson |-> db_properties[i].polygon_geojson]]
    IN  /\ IF (\A i \in 1..Len(db_frames) : db_frames[i].gps_lat = None)
               \/ db_properties = <<>>
           THEN UNCHANGED db_frames
           ELSE db_frames' =
                    [i \in 1..Len(db_frames) |->
                        LET frame == db_frames[i]
                        IN  IF frame.gps_lat = None THEN frame
                            ELSE [frame EXCEPT !.matched_property_id =
                                     match_frame_to_property(frame.gps_lat[1],
                                         frame.gps_lon[1], prop_dicts, b,
                                         strtree_order)]]
        /\ response' = Some(200)
        /\ UNCHANGED <<db_properties, db_predictions, db_reports, gpx_tracks,
                       upload_dir, pipelineVars>>
        /\ LastDetectKept

(***************************************************************************)
(* routers/inference.py: run_model_inference; routers/changes.py:          *)
(* run_change_detection, review_change                                     *)
(***************************************************************************)
ModelNames == {"m1.pt", "m2.pt"}
ReviewStatuses == {"approved", "rejected", "pending"}
Reviewers == {"ana"}
ChangeIds == {1, 3}

\* run_inference, the external classifier: the result for one frame image,
\* None when the model reports nothing for it.
Classify(model_name, frame_path) ==
    IF model_name = "m1.pt"
    THEN Some([predicted_class |-> "commercial", confidence |-> 9])
    ELSE IF frame_path[2] = 0
    THEN Some([predicted_class |-> "non_commercial", confidence |-> 6])
    ELSE None

\* The prediction rows one run adds for the frames fs, after the rows there.
RECURSIVE NewPredictions(_, _, _)
NewPredictions(fs, model_name, rows) ==
    IF fs = <<>> THEN rows
    ELSE LET result == Classify(model_name, Head(fs).frame_path)
         IN  NewPredictions(Tail(fs), model_name,
                 IF result = None THEN rows
                 ELSE Append(rows, [id              |-> NextId(rows),
                                    frame_id        |-> Head(fs).id,
                                    model_name      |-> model_name,
                                    predicted_class |-> result[1].predicted_class,
                                    confidence      |-> result[1].confidence]))

RunModelInference(model_name, property_id) ==
    LET fs == IF property_id = None THEN db_frames
              ELSE SelectSeq(db_frames,
                             LAMBDA f : f.matched_property_id = property_id)
    IN  /\ Len(NewPredictions(fs, model_name, db_predictions)) <= MaxPredictions
        /\ db_predictions' = NewPredictions(fs, model_name, db_predictions)
        /\ response' = Some(200)
        /\ UNCHANGED <<db_properties, db_frames, db_reports, gpx_tracks,
                       upload_dir, pipelineVars>>
        /\ LastDetectKept

\* A join that leaves out the filter on the matched property: every stored
\* prediction counts for every property.
PredictionsOfAnyFrame(id) ==
    [k \in 1..Len(db_predictions) |->
        [predicted_class |-> db_predictions[k].predicted_class,
         confidence      |-> db_predictions[k].confidence]]

\* The predictions joined to the frames matched to property id.
PredictionsOf(id) ==
    LET joined == SelectSeq(db_predictions,
                      LAMBDA p : \E i \in 1..Len(db_frames) :
                                     /\ db_frames[i].id = p.frame_id
                                     /\ db_frames[i].matched_property_id = Some(id))
    IN  [k \in 1..Len(joined) |-> [predicted_class |-> joined[k].predicted_class,
                                   confidence      |-> joined[k].confidence]]

props_with_preds ==
    [i \in 1..Len(db_properties) |->
        [property_id       |-> db_properties[i].id,
         existing_typology |-> db_properties[i].existing_typology,
         predictions       |-> PredictionsOf(db_properties[i].id)]]

\* The rows saved for the report dicts rs, into the table holding rows.
RECURSIVE NewReportRows(_, _)
NewReportRows(rs, rows) ==
    IF rs = <<>> THEN rows
    ELSE NewReportRows(Tail(rs),
             Append(rows, [id                    |-> NextId(rows),
                           property_id           |-> Head(rs).property_id,
                           existing_typology     |-> Head(rs).existing_typology,
                           predicted_typology    |-> Head(rs).predicted_typology,
                           aggregated_confidence |-> Head(rs).aggregated_confidence,
                           num_frames_analyzed   |-> Head(rs).num_frames_analyzed,
                           num_frames_agreeing   |-> Head(rs).num_frames_agreeing,
                           status                |-> Head(rs).status,
                           reviewed_by           |-> None,
                           review_notes          |-> None]))

\* A run that leaves the reports of the run before in the table.
KeptReports(rows) == rows

\* db.query(ChangeReport).delete()
ClearedReports(rows) == <<>>

\* The verdict of a report row: the row without its id and review fields.
Verdict(row) ==
    [property_id           |-> row.property_id,
     existing_typology     |-> row.existing_typology,
     predicted_typology    |-> row.predicted_typology,
     aggregated_confidence |-> row.aggregated_confidence,
     num_frames_analyzed   |-> row.num_frames_analyzed,
     num_frames_agreeing   |-> row.num_frames_agreeing,
     status                |-> row.status]

VerdictsOf(rows) == {Verdict(rows[k]) : k \in 1..Len(rows)}

RunChangeDetection ==
    /\ IF db_properties = <<>>
       THEN UNCHANGED <<db_reports, last_detect>>
       ELSE LET saved == NewReportRows(
                             detect_changes(props_with_preds, CONFIDENCE_THRESHOLD),
                             ClearedReports(db_reports))
            IN  /\ db_reports' = saved
                /\ last_detect' =
                       Some([verdicts |-> VerdictsOf(saved),
                             cleared  |-> {db_reports[k].status :
                                              k \in 1..Len(db_reports)},
                             before   |-> IF last_detect = None THEN None
                                          ELSE Some(last_detect[1].verdicts)])
    /\ response' = Some(200)
    /\ UNCHANGED <<db_properties, db_frames, db_predictions, gpx_tracks,
                   upload_dir, pipelineVars>>

\* A handler that tests the status before it looks the report up.
ReviewCodeStatusFirst(change_id, status) ==
    IF status \notin {"approved", "rejected"} THEN 400
    ELSE IF \A k \in 1..Len(db_reports) : db_reports[k].id # change_id THEN 404
    ELSE 200

\* The HTTP status review_change answers: 404 for a report that is not there,
\* then 400 for a status other than approved and rejected, else 200.
ReviewCode(change_id, status) ==
    IF \A k \in 1..Len(db_reports) : db_reports[k].id # change_id THEN 404
    ELSE IF status \notin {"approved", "rejected"} THEN 400
    ELSE 200

ReviewChange(change_id, status, reviewed_by) ==
    /\ response' = Some(ReviewCode(change_id, status))
    /\ IF ReviewCode(change_id, status) # 200
       THEN UNCHANGED db_reports
       ELSE db_reports' =
                [k \in 1..Len(db_reports) |->
                    IF db_reports[k].id = change_id
                    THEN [db_reports[k] EXCEPT !.status       = status,
                                               !.reviewed_by  = Some(reviewed_by),
                                               !.review_notes = Some("checked")]
                    ELSE db_reports[k]]
    /\ UNCHANGED <<db_properties, db_frames, db_predictions, gpx_tracks,
                   upload_dir, last_detect, pipelineVars>>

(***************************************************************************)
(* routers/properties.py: upload_properties; routers/demo.py:              *)
(* seed_demo_data                                                          *)
(*                                                                         *)
(* A registry file holds polygons only, so parse_track_file finds no track *)
(* in it and extract_video_frames passes it over; it is left out of        *)
(* upload_dir.  The demo seed is scaled down to three parcels with one     *)
(* frame and one prediction each.                                          *)
(***************************************************************************)
MaxProperties == 2

PropertyFiles == {"parcels.kml", "empty.kml"}

\* The second parcel of the registry file, 45 m north of the first.
NorthParcel == Rect(0, 65, 20, 85)

\* parse_file: the property dicts of a registry file.
parse_file(file) ==
    IF file = "parcels.kml"
    THEN <<[existing_typology |-> Some("commercial"),
            polygon_geojson   |-> Some(SmallParcel)],
           [existing_typology |-> Some("non_commercial"),
            polygon_geojson   |-> Some(NorthParcel)]>>
    ELSE <<>>

\* The rows saved for the property dicts ps, after the rows there.
NewPropertyRows(ps, rows) ==
    rows \o [n \in 1..Len(ps) |->
                [id                |-> NextId(rows) + n - 1,
                 existing_typology |-> ps[n].existing_typology,
                 polygon_geojson   |-> ps[n].polygon_geojson]]

UploadProperties(file) ==
    LET parsed == parse_file(file)
    IN  /\ Len(db_properties) + Len(parsed) <= MaxProperties
        /\ IF parsed = <<>>
           THEN /\ response' = Some(400)
                /\ UNCHANGED db_properties
           ELSE /\ response' = Some(200)
                /\ db_properties' = NewPropertyRows(parsed, db_properties)
        /\ UNCHANGED <<db_frames, db_predictions, db_reports, gpx_tracks,
                       upload_dir, pipelineVars>>
        /\ LastDetectKept

\* DEMO_PROPERTIES with the status of status_assignments: a flagged and an
\* approved mismatch and a confirmed match.
DEMO_PROPERTIES ==
    <<[typology |-> "commercial",     mismatch |-> TRUE,  status |-> "flagged"],
      [typology |-> "commercial",     mismatch |-> TRUE,  status |-> "approved"],
      [typology |-> "non_commercial", mismatch |-> FALSE, status |-> "confirmed"]>>

\* _make_rect_polygon: the rectangle of demo parcel i beside the route.
DemoParcel(i) == Rect(200, 40 * i, 220, 40 * i + 20)

OtherTypology(t) == IF t = "commercial" THEN "non_commercial" ELSE "commercial"

DemoPredicted(i) ==
    IF DEMO_PROPERTIES[i].mismatch
    THEN OtherTypology(DEMO_PROPERTIES[i].typology)
    ELSE DEMO_PROPERTIES[i].typology

DemoReviewed(i) == DEMO_PROPERTIES[i].status \in {"approved", "rejected"}

SeedDemoData ==
    LET n == Len(DEMO_PROPERTIES)
    IN  /\ db_properties' =
               [i \in 1..n |-> [id                |-> i,
                                existing_typology |-> Some(DEMO_PROPERTIES[i].typology),
                                polygon_geojson   |-> Some(DemoParcel(i))]]
        /\ db_frames' =
               [i \in 1..n |-> [id                  |-> i,
                                video_filename      |-> "demo_survey.mp4",
                                frame_number        |-> i,
                                timestamp_sec       |-> i,
                                frame_path          |-> <<"demo_frames", i>>,
                                gps_lat             |-> Some(40 * i + 10),
                                gps_lon             |-> Some(210),
                                gps_source          |-> Some("demo_generated"),
                                matched_property_id |-> Some(i)]]
        /\ db_predictions' =
               [i \in 1..n |-> [id              |-> i,
                                frame_id        |-> i,
                                model_name      |-> "demo_yolo_v8.pt",
                                predicted_class |-> DemoPredicted(i),
                                confidence      |-> 8]]
        /\ db_reports' =
               [i \in 1..n |-> [id                    |-> i,
                                property_id           |-> i,
                                existing_typology     |-> Some(DEMO_PROPERTIES[i].typology),
                                predicted_typology    |-> DemoPredicted(i),
                                aggregated_confidence |-> 8000,
                                num_frames_analyzed   |-> 1,
                                num_frames_agreeing   |-> 1,
                                status                |-> DEMO_PROPERTIES[i].status,
                                reviewed_by           |-> IF DemoReviewed(i)
                                                          THEN Some("demo_reviewer")
                                                          ELSE None,
                                review_notes          |-> IF DemoReviewed(i)
                                                          THEN Some("Demo review")
                                                          ELSE None]]
        /\ response' = Some(200)
        /\ UNCHANGED <<gpx_tracks, upload_dir, pipelineVars>>
        /\ LastDetectKept

(***************************************************************************)
(* Specification SpecStore: the handlers called in any order, from the     *)
(* empty store                                                             *)
(***************************************************************************)

InitStore ==
    /\ pc = "serving"
    /\ db_properties = <<>>
    /\ db_frames = <<>>
    /\ db_predictions = <<>>
    /\ db_reports = <<>>
    /\ gpx_tracks = <<>>
    /\ upload_dir = {}
    /\ last_detect = None
    /\ response = None
    /\ frames = <<>>
    /\ properties = <<>>
    /\ buffer_meters = BUFFER_METERS
    /\ strtree_order \in {"ascending", "descending"}
    /\ results = <<>>
    /\ results_again = <<>>
    /\ IdleAgg
    /\ IdleDetect
    /\ IdleInterp

NextStore ==
    \/ \E file \in PropertyFiles : UploadProperties(file)
    \/ SeedDemoData
    \/ \E v \in Videos, interval \in Intervals : ExtractVideoFrames(v, interval)
    \/ \E file \in TrackFiles, video_name \in {""} \cup Videos : UploadGpx(file, video_name)
    \/ \E b \in StoreBuffers : GeoMatchFrames(b)
    \/ \E model_name \in ModelNames,
          property_id \in {None} \cup {Some(db_properties[i].id) :
                                           i \in 1..Len(db_properties)} :
           RunModelInference(model_name, property_id)
    \/ RunChangeDetection
    \/ \E change_id \in ChangeIds, status \in ReviewStatuses, who \in Reviewers :
           ReviewChange(change_id, status, who)

SpecStore == InitStore /\ [][NextStore]_vars

(***************************************************************************)
(* Claims on the verdict aggregator                                        *)
(***************************************************************************)
ReportsOf(id) == SelectSeq(reports, LAMBDA r : r.property_id = id)

\* C1: every parcel with at least MIN_FRAMES_FOR_PREDICTION samples gets status
\* "flagged" exactly when it has a recorded classification, the winning label
\* differs from it and the aggregated confidence is >= confidence_threshold,
\* and status "confirmed" in every other case.
C1_FlaggedIff ==
    pc = "done" =>
        \A i \in 1..Len(properties_with_predictions) :
            LET prop == properties_with_predictions[i]
                rs   == ReportsOf(prop.property_id)
                a    == aggregate_predictions(prop.predictions)
            IN  Len(prop.predictions) >= MIN_FRAMES_FOR_PREDICTION =>
                    /\ Len(rs) = 1
                    /\ a # None
                    /\ rs[1].status \in {"flagged", "confirmed"}
                    /\ rs[1].status = "flagged" <=>
                           /\ prop.existing_typology # None
                           /\ a[1].predicted_typology # prop.existing_typology[1]
                           /\ a[1].aggregated_confidence >= confidence_threshold

\* The spec's example: recorded commercial, winner non_commercial with 0.75,
\* threshold 0.5, flagged; beside it a disagreement at exactly the threshold.
C1_Witness ==
    /\ pc = "done"
    /\ \E k \in 1..Len(reports) :
           /\ reports[k].status = "flagged"
           /\ reports[k].existing_typology = Some("commercial")
           /\ reports[k].predicted_typology = "non_commercial"
           /\ reports[k].aggregated_confidence = 7500
           /\ confidence_threshold = 5000

\* C2: with at least MIN_FRAMES_FOR_PREDICTION samples and a positive total
\* confidence, the aggregated confidence is the winning label's summed confidence
\* divided by the sum of all confidences, as round(x, 4) reports it (within half
\* a unit of 0.0001); 0.9, 0.6 commercial and 0.8 non_commercial give 0.6522.
C2_NormalizedShare ==
    /\ (pc = "done" /\ Len(predictions) >= MIN_FRAMES_FOR_PREDICTION
                    /\ TotalConfidence(predictions) > 0) =>
           /\ agg # None
           /\ LET w == ClassScore(predictions, agg[1].predicted_typology)
                  t == TotalConfidence(predictions)
                  r == agg[1].aggregated_confidence
              IN  2 * Abs(r * t - 10000 * w) <= t
    /\ (pc = "done" /\ predictions =
            << [predicted_class |-> "commercial", confidence |-> 9],
               [predicted_class |-> "commercial", confidence |-> 6],
               [predicted_class |-> "non_commercial", confidence |-> 8] >>) =>
           /\ agg # None
           /\ agg[1].predicted_typology = "commercial"
           /\ agg[1].aggregated_confidence = 6522

\* The example list, aggregated; its share 1.5/2.3 is neither the vote fraction
\* 2/3 nor the mean confidence 0.75.
C2_Witness ==
    /\ pc = "done"
    /\ predictions =
            << [predicted_class |-> "commercial", confidence |-> 9],
               [predicted_class |-> "commercial", confidence |-> 6],
               [predicted_class |-> "non_commercial", confidence |-> 8] >>
    /\ agg # None
    /\ agg[1].aggregated_confidence = 6522

FirstIndex(preds, cls) ==
    CHOOSE i \in 1..Len(preds) :
        /\ preds[i].predicted_class = cls
        /\ \A j \in 1..(i - 1) : preds[j].predicted_class # cls

Appearing(preds) == {preds[i].predicted_class : i \in 1..Len(preds)}

\* C3: the winner is the label with the greatest summed confidence; among labels
\* with the same greatest sum it is the one that appears first in the sample
\* list, for every ordering of the samples.
C3_WinnerGreatestFirst ==
    (pc = "done" /\ agg # None) =>
        LET w == agg[1].predicted_typology
        IN  /\ w \in Appearing(predictions)
            /\ \A c \in Appearing(predictions) :
                   /\ ClassScore(predictions, c) <= ClassScore(predictions, w)
                   /\ (c # w /\ ClassScore(predictions, c) = ClassScore(predictions, w))
                          => FirstIndex(predictions, w) < FirstIndex(predictions, c)

\* A tie for the greatest sum between the winner and a label that comes later,
\* the winner not being the label of the last sample.
C3_Witness ==
    /\ pc = "done"
    /\ agg # None
    /\ Len(predictions) = MaxSamples
    /\ \E c \in Appearing(predictions) :
           /\ c # agg[1].predicted_typology
           /\ ClassScore(predictions, c) =
                  ClassScore(predictions, agg[1].predicted_typology)
           /\ ClassScore(predictions, c) > 0
           /\ FirstIndex(predictions, agg[1].predicted_typology)
                  < FirstIndex(predictions, c)


(***************************************************************************)
(* Claims on the parcel matcher                                            *)
(***************************************************************************)
Parsed == {i \in 1..Len(properties) : properties[i].polygon_geojson # None}
PolyOf(i) == properties[i].polygon_geojson[1]
Positioned(f) == f.gps_lat # None /\ f.gps_lon # None
FramePt(f) == Pt(f.gps_lon[1], f.gps_lat[1])
StrictlyInside(poly, p) ==
    /\ poly.x0 < p.x /\ p.x < poly.x1
    /\ poly.y0 < p.y /\ p.y < poly.y1
Contained(f) == \E i \in Parsed : StrictlyInside(PolyOf(i), FramePt(f))

\* C4: when no parcel contains the point, the result is the parcel whose boundary
\* is nearest to the point among all parcels within the coarse search radius,
\* provided that smallest distance is strictly below buffer_meters, and None
\* otherwise; never a parcel when another candidate is strictly nearer.
C4_NearestWithinBuffer ==
    pc = "done" =>
        \A k \in 1..Len(frames) :
            (Positioned(frames[k]) /\ ~Contained(frames[k])) =>
                LET p      == FramePt(frames[k])
                    r      == DictGet(results, frames[k].id)
                    cands  == {i \in Parsed : InSearchArea(PolyOf(i), p, buffer_meters)}
                    within == {i \in cands : BoundaryDist2(PolyOf(i), p)
                                                 < buffer_meters * buffer_meters}
                IN  IF within = {} THEN r = None
                    ELSE \E i \in within :
                             /\ r = Some(properties[i].id)
                             /\ \A j \in cands : BoundaryDist2(PolyOf(i), p)
                                                     <= BoundaryDist2(PolyOf(j), p)

\* C5: a point outside every parcel whose only candidate parcel has nearest-edge
\* distance d is matched to it whenever d < buffer_meters and unmatched whenever
\* d >= buffer_meters, whatever the size or shape of the parcel.
C5_BufferBoundary ==
    pc = "done" =>
        \A k \in 1..Len(frames) :
            (Positioned(frames[k]) /\ ~Contained(frames[k]) /\ Cardinality(Parsed) = 1) =>
                LET p  == FramePt(frames[k])
                    r  == DictGet(results, frames[k].id)
                    i  == CHOOSE i \in Parsed : TRUE
                    d2 == BoundaryDist2(PolyOf(i), p)
                IN  /\ d2 < buffer_meters * buffer_meters => r = Some(properties[i].id)
                    /\ d2 >= buffer_meters * buffer_meters => r = None

\* C6: a point strictly inside parcel A and outside every other parcel is matched
\* to A for every buffer_meters, 0 included, whatever other parcels lie nearby.
C6_ContainmentPrecedence ==
    pc = "done" =>
        \A k \in 1..Len(frames) : \A a \in Parsed :
            ( /\ Positioned(frames[k])
              /\ StrictlyInside(PolyOf(a), FramePt(frames[k]))
              /\ \A o \in Parsed \ {a} : ~StrictlyInside(PolyOf(o), FramePt(frames[k])) ) =>
                /\ frames[k].id \in DOMAIN results
                /\ results[frames[k].id] = Some(properties[a].id)

\* A frame strictly inside one parcel, matched to it, while the boundary of
\* another parcel lies within buffer_meters of the frame.
C6_Witness ==
    /\ pc = "done"
    /\ \E k \in 1..Len(frames) : \E a \in Parsed : \E o \in Parsed \ {a} :
           /\ Positioned(frames[k])
           /\ StrictlyInside(PolyOf(a), FramePt(frames[k]))
           /\ ~StrictlyInside(PolyOf(o), FramePt(frames[k]))
           /\ BoundaryDist2(PolyOf(o), FramePt(frames[k])) < buffer_meters * buffer_meters
           /\ ~CentroidTooFar(PolyOf(o), FramePt(frames[k]), buffer_meters)
           /\ DictGet(results, frames[k].id) = Some(properties[a].id)

\* C7: the value the batch maps a positioned observation to is the result of
\* match_frame_to_property on its position alone, with the same registry and
\* buffer, whatever other observations are in the batch and in whatever order.
C7_BatchEqualsSingle ==
    pc = "done" =>
        \A k \in 1..Len(frames) :
            Positioned(frames[k]) =>
                DictGet(results, frames[k].id) =
                    match_frame_to_property(frames[k].gps_lat[1], frames[k].gps_lon[1],
                                            properties, buffer_meters, strtree_order)

\* A batch of two positioned frames, the first matched by containment and the
\* second, which no parcel contains, unmatched.
C7_Witness ==
    /\ pc = "done"
    /\ Len(frames) = 2
    /\ Positioned(frames[1]) /\ Positioned(frames[2])
    /\ Contained(frames[1]) /\ ~Contained(frames[2])
    /\ DictGet(results, frames[1].id) # None
    /\ DictGet(results, frames[2].id) = None

\* C8: for every registry, an empty one included, the returned mapping has an
\* entry for every observation of the batch, and every observation without a
\* position is mapped to None.
C8_EveryObservationMapped ==
    pc = "done" =>
        \A k \in 1..Len(frames) :
            /\ frames[k].id \in DOMAIN results
            /\ ~Positioned(frames[k]) => results[frames[k].id] = None


(***************************************************************************)
(* Claims on the track interpolator                                        *)
(***************************************************************************)
TimeOrdered(pts) == \A i \in 1..(Len(pts) - 1) : pts[i].time <= pts[i + 1].time
First == points[1]
Last == points[Len(points)]
ReturnsPoint(point) ==
    /\ interp # None
    /\ RatEq(interp[1].lat, <<point.lat, 1>>)
    /\ RatEq(interp[1].lon, <<point.lon, 1>>)

Brackets(i) == points[i].time <= target_time /\ target_time <= points[i + 1].time

\* C10: for a query strictly between the first and last timestamps of a
\* time-ordered track, the result is p_i + ratio * (p_i+1 - p_i) for the first
\* consecutive pair with p_i.time <= query <= p_i+1.time, with
\* ratio = (query - p_i.time) / (p_i+1.time - p_i.time), for latitude and
\* longitude alike; t=0 at (0,0) and t=10 at (10,10) queried at 5 give (5,5).
C10_LinearInterpolation ==
    /\ (pc = "done" /\ Len(points) >= 2 /\ TimeOrdered(points)
            /\ First.time < target_time /\ target_time < Last.time) =>
           /\ interp # None
           /\ \E i \in 1..(Len(points) - 1) :
                  /\ Brackets(i)
                  /\ \A j \in 1..(i - 1) : ~Brackets(j)
                  /\ points[i].time < points[i + 1].time
                  /\ LET dt == points[i + 1].time - points[i].time
                         du == target_time - points[i].time
                     IN  /\ interp[1].lat[2] # 0 /\ interp[1].lon[2] # 0
                         /\ RatEq(interp[1].lat,
                                  <<points[i].lat * dt
                                        + du * (points[i + 1].lat - points[i].lat), dt>>)
                         /\ RatEq(interp[1].lon,
                                  <<points[i].lon * dt
                                        + du * (points[i + 1].lon - points[i].lon), dt>>)
    /\ (pc = "done" /\ target_time = 5
            /\ points = << [time |-> 0, lat |-> 0, lon |-> 0],
                           [time |-> 10, lat |-> 10, lon |-> 10] >>) =>
           /\ interp # None
           /\ RatEq(interp[1].lat, <<5, 1>>)
           /\ RatEq(interp[1].lon, <<5, 1>>)

\* A three-point track queried off the middle of its first pair, whose latitude
\* and longitude change by different amounts: (0,0) to (4,7) at 2/5 is (1.6, 2.8).
C10_Witness ==
    /\ pc = "done"
    /\ Len(points) = 3
    /\ TimeOrdered(points)
    /\ target_time = 2
    /\ points[1].time = 0 /\ points[2].time = 5 /\ points[3].time = 10
    /\ points[1].lat = 0 /\ points[1].lon = 0
    /\ points[2].lat = 4 /\ points[2].lon = 7
    /\ interp # None
    /\ RatEq(interp[1].lat, <<8, 5>>)
    /\ RatEq(interp[1].lon, <<14, 5>>)

\* C11: interpolate_gps returns None for every track with fewer than 2 points,
\* empty or a single point, for every query time, a query time equal to the
\* single point's timestamp included.
C11_TooFewPoints ==
    (pc = "done" /\ Len(points) < 2) => interp = None

\* A single-point track queried at that point's own timestamp: None.
C11_Witness ==
    /\ pc = "done"
    /\ Len(points) = 1
    /\ target_time = points[1].time
    /\ interp = None

FirstBracket(pts, t) ==
    CHOOSE i \in 1..(Len(pts) - 1) :
        /\ pts[i].time <= t /\ t <= pts[i + 1].time
        /\ \A j \in 1..(i - 1) : ~(pts[j].time <= t /\ t <= pts[j + 1].time)

HasBracket(pts, t) ==
    \E i \in 1..(Len(pts) - 1) : pts[i].time <= t /\ t <= pts[i + 1].time

HasEqualNeighbours(pts) ==
    \E i \in 1..(Len(pts) - 1) : pts[i].time = pts[i + 1].time

\* C12: on every track with consecutive points of equal timestamps no result
\* of interpolate_gps has a zero divisor, and the loop over consecutive pairs,
\* when the first pair that brackets the query has p_i.time = p_i+1.time,
\* yields exactly p_i's position with ratio 0.
C12_EqualTimestamps ==
    (pc = "done" /\ Len(points) >= 2 /\ HasEqualNeighbours(points)) =>
        /\ interp # None => (interp[1].lat[2] # 0 /\ interp[1].lon[2] # 0)
        /\ HasBracket(points, target_time) =>
               LET i == FirstBracket(points, target_time)
                   r == InterpolateFrom(points, target_time, 1)
               IN  /\ r # None
                   /\ r[1].lat[2] # 0 /\ r[1].lon[2] # 0
                   /\ points[i].time = points[i + 1].time =>
                          /\ RatEq(r[1].lat, <<points[i].lat, 1>>)
                          /\ RatEq(r[1].lon, <<points[i].lon, 1>>)

\* A track whose first two points share a timestamp and differ in position,
\* queried at that timestamp: the pair loop picks that pair, and the call
\* returns the position of its first point.
C12_Witness ==
    /\ pc = "done"
    /\ Len(points) = 3
    /\ points[1].time = points[2].time
    /\ points[1].lat # points[2].lat
    /\ points[3].time > points[2].time
    /\ target_time = points[1].time
    /\ FirstBracket(points, target_time) = 1
    /\ ReturnsPoint(points[1])
    /\ ~ReturnsPoint(points[2])

(***************************************************************************)
(* Claims on the evidence floor and the counts                             *)
(***************************************************************************)
\* C13: aggregate_predictions returns None exactly when the number of samples
\* is less than MIN_FRAMES_FOR_PREDICTION and a result otherwise; with the
\* default of 1 an empty list gives None and a single sample gives a result.
C13_NoneIffBelowMinimum ==
    pc = "done" =>
        /\ agg = None <=> Len(predictions) < MIN_FRAMES_FOR_PREDICTION
        /\ Len(predictions) = 0 => agg = None
        /\ Len(predictions) = 1 => agg # None

\* A single sample, of confidence 0 at that, aggregated to a result.
C13_Witness ==
    /\ pc = "done"
    /\ Len(predictions) = 1
    /\ predictions[1].confidence = 0
    /\ agg # None
    /\ agg[1].num_frames_analyzed = 1

\* C14: every parcel given to detect_changes gets exactly one verdict, and the
\* verdict of a parcel is Insufficient if and only if it has fewer than
\* MIN_FRAMES_FOR_PREDICTION samples, zero samples in particular.
C14_OneVerdictEach ==
    pc = "done" =>
        \A i \in 1..Len(properties_with_predictions) :
            LET prop == properties_with_predictions[i]
                rs   == ReportsOf(prop.property_id)
            IN  /\ Len(rs) = 1
                /\ rs[1].status = "insufficient" <=>
                       Len(prop.predictions) < MIN_FRAMES_FOR_PREDICTION

\* C15: in every result of aggregate_predictions num_frames_agreeing is the
\* unweighted number of samples whose label is the winning label and
\* num_frames_analyzed is the number of samples in the list.
C15_UnweightedCounts ==
    (pc = "done" /\ agg # None) =>
        /\ agg[1].num_frames_agreeing =
               Cardinality({i \in 1..Len(predictions) :
                               predictions[i].predicted_class = agg[1].predicted_typology})
        /\ agg[1].num_frames_analyzed = Len(predictions)

\* A winner by weight that is a minority by count: one sample of the winning
\* label against two samples of another label.
C15_Witness ==
    /\ pc = "done"
    /\ agg # None
    /\ Len(predictions) = 3
    /\ agg[1].num_frames_agreeing = 1
    /\ agg[1].num_frames_analyzed = 3
    /\ \E c \in Appearing(predictions) :
           /\ c # agg[1].predicted_typology
           /\ Cardinality({i \in 1..Len(predictions) :
                              predictions[i].predicted_class = c}) = 2

\* C16: a parcel whose winning label has a share of the total confidence
\* (summed confidence of the winner divided by the sum of all confidences)
\* strictly below confidence_threshold gets status "confirmed", not "flagged".
C16_BelowThresholdConfirmed ==
    pc = "done" =>
        \A i \in 1..Len(properties_with_predictions) :
            LET prop == properties_with_predictions[i]
                rs   == ReportsOf(prop.property_id)
                a    == aggregate_predictions(prop.predictions)
            IN  (a # None /\ TotalConfidence(prop.predictions) > 0
                   /\ 10000 * ClassScore(prop.predictions, a[1].predicted_typology)
                          < confidence_threshold * TotalConfidence(prop.predictions)) =>
                    /\ Len(rs) = 1
                    /\ rs[1].status = "confirmed"

(***************************************************************************)
(* Claims on unparsable parcels and on repeated matching                   *)
(***************************************************************************)
RemoveAt(seq, i) == [k \in 1..(Len(seq) - 1) |-> IF k < i THEN seq[k] ELSE seq[k + 1]]

\* C18: a parcel whose boundary cannot be parsed is never returned as a match
\* and does not abort the batch: the mapping returned with such a parcel in the
\* registry equals the mapping returned with that parcel removed, and the other
\* parcels keep their own ids.
C18_UnparsableParcelIgnored ==
    pc = "done" =>
        \A i \in 1..Len(properties) :
            properties[i].polygon_geojson = None =>
                /\ \A k \in DOMAIN results : results[k] # Some(properties[i].id)
                /\ results = match_frames_to_properties(frames, RemoveAt(properties, i),
                                                        buffer_meters, strtree_order)

C17_PositionKept ==
    [][\A i \in 1..Len(db_frames) :
           db_frames[i].gps_lat # None =>
               \/ \E j \in 1..Len(db_frames') :
                      /\ db_frames'[j].id = db_frames[i].id
                      /\ db_frames'[j].gps_lat = db_frames[i].gps_lat
                      /\ db_frames'[j].gps_lon = db_frames[i].gps_lon
               \/ \E interval \in Intervals :
                      ExtractVideoFrames(db_frames[i].video_filename, interval)
               \/ SeedDemoData]_vars

\* A frame that holds the position one track gave it after another track, which
\* puts the frame elsewhere, was uploaded for its video, and after geo-match,
\* inference and change detection have run on it.
C17_Witness ==
    \E i \in 1..Len(db_frames) :
        LET f == db_frames[i]
        IN  /\ f.gps_lat # None
            /\ Stem(f.video_filename) \in DOMAIN gpx_tracks
            /\ LET other == interpolate_gps(gpx_tracks[Stem(f.video_filename)],
                                            f.timestamp_sec)
               IN  other # None /\ Coord(other[1].lat) # f.gps_lat[1]
            /\ f.matched_property_id # None
            /\ \E k \in 1..Len(db_predictions) : db_predictions[k].frame_id = f.id
            /\ \E k \in 1..Len(db_reports) :
                   Some(db_reports[k].property_id) = f.matched_property_id

\* C20: a run of change detection over the properties, frame matches and
\* predictions that the run before it read yields the same set of verdicts
\* (property, recorded label, predicted label, aggregated confidence, counts,
\* status), whatever reports the run before left and whatever reviews were
\* made in between.
C20_RerunSameVerdicts ==
    (last_detect # None /\ last_detect[1].before # None) =>
        last_detect[1].verdicts = last_detect[1].before[1]

\* A second run over unchanged evidence that cleared an approved report and
\* flagged the same property again.
C20_Witness ==
    /\ last_detect # None
    /\ last_detect[1].before # None
    /\ "approved" \in last_detect[1].cleared
    /\ \E k \in 1..Len(db_reports) :
           /\ db_reports[k].status = "flagged"
           /\ Verdict(db_reports[k]) \in last_detect[1].before[1]



(***************************************************************************)
(* Claims on the bounds of an interpolated position                        *)
(***************************************************************************)
RatLe(a, b) == a[1] * b[2] <= b[1] * a[2]
RatBetween(x, a, b) ==
    /\ x[2] > 0
    /\ RatLe(<<Min(a, b), 1>>, x)
    /\ RatLe(x, <<Max(a, b), 1>>)

DistinctLabels == {predictions[i].predicted_class : i \in 1..Len(predictions)}
SomeConfidencePositive == \E i \in 1..Len(predictions) : predictions[i].confidence > 0

C30_BufferMonotone ==
    pc = "done" =>
        \A larger \in Buffers :
            larger > buffer_meters =>
                LET wider == match_frames_to_properties(frames, properties, larger,
                                                        strtree_order)
                IN  \A id \in DOMAIN results :
                        results[id] # None =>
                            /\ id \in DOMAIN wider
                            /\ wider[id] # None
                            /\ wider[id] = results[id]


(***************************************************************************)
(* Claims on the handlers of the store                                     *)
(***************************************************************************)
HasPosition(f) == f.gps_lat # None

\* C21: a geo_match_frames call with buffer b on a store with a non-empty
\* registry leaves every positioned frame with the match the matcher gives
\* its position against the registry with buffer b, whatever match the frame
\* had before, and leaves the match of every frame without a position as it
\* was; no frame is added or removed.
C21_GeoMatchOverwrites ==
    [][\A b \in StoreBuffers :
           (/\ db_properties # <<>>
            /\ response' = Some(200)
            /\ UNCHANGED <<db_properties, db_predictions, db_reports, gpx_tracks,
                           upload_dir>>) =>
               LET expected == match_frames_to_properties(db_frames, db_properties, b,
                                                          strtree_order)
               IN  \/ /\ Len(db_frames') = Len(db_frames)
                      /\ \A i \in 1..Len(db_frames) :
                             /\ db_frames'[i].id = db_frames[i].id
                             /\ HasPosition(db_frames[i]) =>
                                    db_frames'[i].matched_property_id
                                        = expected[db_frames[i].id]
                             /\ ~HasPosition(db_frames[i]) =>
                                    db_frames'[i].matched_property_id
                                        = db_frames[i].matched_property_id
                   \/ ~GeoMatchFrames(b)]_vars

\* An extracted frame 20 m from parcel 1 that holds no match, although a
\* report on parcel 1 was made from a prediction on this frame when it was
\* matched to the parcel, and the other frame of the video holds its match:
\* a geo-match with the smaller buffer has put None in the place of a match.
C21_Witness ==
    /\ Len(db_frames) = 2
    /\ db_frames[1].video_filename = "v1.mp4"
    /\ HasPosition(db_frames[1])
    /\ db_frames[1].gps_lat = Some(40)
    /\ db_frames[1].matched_property_id = None
    /\ db_frames[2].matched_property_id = Some(2)
    /\ Len(db_predictions) = 1
    /\ db_predictions[1].frame_id = db_frames[1].id
    /\ \E k \in 1..Len(db_reports) : db_reports[k].property_id = 1
    /\ db_properties # <<>>


ReviewFields(r) == <<r.id, r.status, r.reviewed_by, r.review_notes>>
ReviewFieldsKept ==
    /\ Len(db_reports') = Len(db_reports)
    /\ \A k \in 1..Len(db_reports) :
           ReviewFields(db_reports'[k]) = ReviewFields(db_reports[k])
KnownReport(change_id) == \E k \in 1..Len(db_reports) : db_reports[k].id = change_id
ReviewStep(change_id, status, who) ==
    /\ UNCHANGED <<db_properties, db_frames, db_predictions>>
    /\ ReviewChange(change_id, status, who)
StatusOnlyReviewed ==
    /\ Len(db_reports') = Len(db_reports)
    /\ \A k \in 1..Len(db_reports) :
           \/ db_reports'[k].status = db_reports[k].status
           \/ db_reports'[k].status \in {"approved", "rejected"}

\* C23 as stated: a review_change call changes a status only to approved or
\* rejected; a call with any other status is answered 400 and a call for an
\* unknown report id is answered 404; after a 400 or a 404 every stored report
\* has the status, reviewed_by and review_notes it had.
C23_ErrorCodes ==
    [][\A change_id \in ChangeIds, status \in ReviewStatuses, who \in Reviewers :
           ReviewStep(change_id, status, who) =>
               /\ StatusOnlyReviewed
               /\ status \notin {"approved", "rejected"} => response' = Some(400)
               /\ ~KnownReport(change_id) => response' = Some(404)
               /\ response' \in {Some(400), Some(404)} => ReviewFieldsKept]_vars

\* C23 as amended: a review_change call changes a status only to approved or
\* rejected; a call for an unknown report id is answered 404, whatever status
\* it asks for; a call for a stored report with a status other than approved
\* and rejected is answered 400; after a 400 or a 404 every stored report has
\* the status, reviewed_by and review_notes it had.
C23_UnknownIdFirst ==
    [][\A change_id \in ChangeIds, status \in ReviewStatuses, who \in Reviewers :
           ReviewStep(change_id, status, who) =>
               /\ StatusOnlyReviewed
               /\ ~KnownReport(change_id) => response' = Some(404)
               /\ (KnownReport(change_id) /\ status \notin {"approved", "rejected"}) =>
                      response' = Some(400)
               /\ (KnownReport(change_id) /\ status \in {"approved", "rejected"}) =>
                      response' = Some(200)
               /\ response' \in {Some(400), Some(404)} => ReviewFieldsKept]_vars

\* A request just answered 400 on a store whose report 1 holds the approval
\* and the reviewer of an earlier review.
C23_Witness ==
    /\ response = Some(400)
    /\ \E k \in 1..Len(db_reports) :
           /\ db_reports[k].id = 1
           /\ db_reports[k].status = "approved"
           /\ db_reports[k].reviewed_by = Some("ana")


\* C24: a review changes only a flagged report: in every review_change call a
\* stored report whose status is not flagged (a confirmed one, or one already
\* approved or rejected) keeps its status, reviewed_by and review_notes.
C24_OnlyFlaggedReviewed ==
    [][\A change_id \in ChangeIds, status \in ReviewStatuses, who \in Reviewers :
           ReviewStep(change_id, status, who) =>
               /\ Len(db_reports') = Len(db_reports)
               /\ \A k \in 1..Len(db_reports) :
                      db_reports[k].status # "flagged" =>
                          ReviewFields(db_reports'[k]) = ReviewFields(db_reports[k])]_vars


(***************************************************************************)
(* Claims on the references between the tables                             *)
(***************************************************************************)
PropertyStored(id) == \E j \in 1..Len(db_properties) : db_properties[j].id = id

\* C26: after any sequence of handler calls (property upload, demo seed,
\* frame extraction, track upload, geo-match, inference, change detection,
\* review), every stored frame that holds a match has a position, and its
\* match is the id of a stored property.
C26_MatchedFrameValid ==
    \A i \in 1..Len(db_frames) :
        db_frames[i].matched_property_id # None =>
            /\ HasPosition(db_frames[i])
            /\ db_frames[i].gps_lon # None
            /\ PropertyStored(db_frames[i].matched_property_id[1])

\* Two extracted frames, the first positioned 20 m from parcel 1 and matched
\* to it by a geo-match with the larger buffer, the second matched to
\* parcel 2, on the uploaded registry.
C26_Witness ==
    /\ Len(db_frames) = 2
    /\ db_frames[1].video_filename = "v1.mp4"
    /\ db_frames[1].gps_lat = Some(40)
    /\ db_frames[1].matched_property_id = Some(1)
    /\ db_frames[2].matched_property_id = Some(2)
    /\ Len(db_properties) = 2
    /\ PropertyStored(1) /\ PropertyStored(2)

FrameStored(id) == \E i \in 1..Len(db_frames) : db_frames[i].id = id

\* C27: after any sequence of handler calls every stored prediction refers to
\* a stored frame; in particular a re-extraction of a video that has frames
\* and predictions leaves no prediction on a deleted frame.
C27_PredictionFrameStored ==
    \A k \in 1..Len(db_predictions) : FrameStored(db_predictions[k].frame_id)

ReportsFor(rows, id) == {k \in 1..Len(rows) : rows[k].property_id = id}

\* At most one report per property, each on a stored property.
OneReportPerProperty ==
    /\ \A k, l \in 1..Len(db_reports) :
           db_reports[k].property_id = db_reports[l].property_id => k = l
    /\ \A k \in 1..Len(db_reports) : PropertyStored(db_reports[k].property_id)

\* The stored predictions whose frame is stored and matched to property id.
PredictionsOn(id) ==
    {k \in 1..Len(db_predictions) :
        \E i \in 1..Len(db_frames) :
            /\ db_frames[i].id = db_predictions[k].frame_id
            /\ db_frames[i].matched_property_id = Some(id)}

\* The reports in the next state are exactly one for each stored property
\* with at least MIN_FRAMES_FOR_PREDICTION predictions on frames matched to
\* it, each flagged or confirmed.
ReportsExact ==
    /\ \A i \in 1..Len(db_properties) :
           Cardinality(ReportsFor(db_reports', db_properties[i].id)) =
               IF Cardinality(PredictionsOn(db_properties[i].id)) >=
                      MIN_FRAMES_FOR_PREDICTION
               THEN 1 ELSE 0
    /\ \A k \in 1..Len(db_reports') :
           /\ db_reports'[k].status \in {"flagged", "confirmed"}
           /\ PropertyStored(db_reports'[k].property_id)

\* C28: after any sequence of handler calls there is at most one report per
\* property and every report refers to a stored property; a step of
\* run_change_detection leaves exactly one report for each property with at
\* least the minimum number of predictions on frames matched to it, each with
\* status flagged or confirmed.
C28_ReportsPerProperty ==
    /\ []OneReportPerProperty
    /\ [][RunChangeDetection => ReportsExact]_vars

\* Change detection has just run on two parcels with a frame matched to
\* each, the prediction on the frame of parcel 2: the one report is on
\* parcel 2, parcel 1 has none.
C28_Witness ==
    /\ Len(db_properties) = 2
    /\ \E i, j \in 1..Len(db_frames) :
           /\ db_frames[i].matched_property_id = Some(1)
           /\ db_frames[j].matched_property_id = Some(2)
           /\ Len(db_predictions) = 1
           /\ db_predictions[1].frame_id = db_frames[j].id
    /\ last_detect # None
    /\ Len(db_reports) = 1
    /\ db_reports[1].property_id = 2
    /\ db_reports[1].status \in {"flagged", "confirmed"}
    /\ db_reports[1].reviewed_by = None

=============================================================================
